---- MODULE Spec2Model ----
(***************************************************************************)
(* Model of the `configure` secrets synchronisation tool.                  *)
(*                                                                         *)
(*   src/src/git.rs        SecretsRepo, RepoStatus                         *)
(*   src/src/string.rs     distance_between_strings_in                     *)
(*   src/src/configure.rs  Configuration, File, update_configuration       *)
(*   src/src/fs.rs         key lookup, decrypt/encrypt of the mapped files *)
(*   src/src/encryption.rs encrypt_file, decrypt_file                      *)
(*                                                                         *)
(* Specifications:                                                         *)
(*   SpecDist    the distance computation on arbitrary hashes and logs     *)
(*   SpecStatus  RepoStatus::from_repo on `git status --porcelain -b` text *)
(*   SpecApply   decrypt_files_for_configuration on a project tree         *)
(*   Spec        update_configuration (which ends with the apply step)     *)
(*   SpecEntry   reading the .configure file; update, apply and the        *)
(*               update_<field> functions of lib.rs                        *)
(*   SpecCrypt   encrypt_bytes followed by decrypt_bytes                   *)
(*   SpecSetup   setup_configuration                                       *)
(***************************************************************************)
EXTENDS Integers, Sequences, FiniteSets, TLC

VARIABLES
    pc,               \* position in the running operation
    err,              \* error or panic the operation ended with ("" = none)
    interactive,      \* the `interactive` argument of update
    headRef,          \* secrets repo: branch HEAD points to, "HEAD" = detached
    detachedAt,       \* secrets repo: commit of a detached HEAD ("" otherwise)
    tip,              \* secrets repo: local branch -> tip commit
    remote,           \* secrets repo: origin/<branch> -> tip commit, "" = none
    worktree,         \* secrets repo: commit the working tree holds
    dirty,            \* secrets repo: file lines `git status` lists
    starting_branch,  \* update_configuration: baseline branch
    starting_ref,     \* update_configuration: baseline commit
    configuration,    \* the in-memory Configuration
    configFile,       \* the Configuration stored in the .configure file
    status,           \* update_configuration: the RepoStatus probed
    drift,            \* update_configuration: `distance` (-1 = not computed)
    fetch_outcome,    \* update_configuration: how `git fetch` went ("" = not yet)
    keysJson,         \* keys.json: project name -> key string
    envTemp,          \* CONFIGURE_ENCRYPTION_KEY_TEMP ("unset" or a value)
    envKey,           \* CONFIGURE_ENCRYPTION_KEY ("unset" or a value)
    encryption_key,   \* the key in use by the running (en|de)cryption loop
    files,            \* project tree: path -> content
    dirs,             \* project tree: directories that exist
    idx,              \* index of the next mapping of the running loop
    backup_destination, \* the backup path of the mapping being applied
    now,              \* the clock, in seconds
    args,             \* arguments of the pure function under study
    ret,              \* its result
    effects           \* history: the checkouts and file operations done so far

repoVars == <<headRef, detachedAt, tip, remote, worktree, dirty>>
updVars  == <<interactive, starting_branch, starting_ref, status, drift,
              fetch_outcome>>
cfgVars  == <<configuration, configFile>>
keyVars  == <<keysJson, envTemp, envKey>>
fsVars   == <<files, dirs, backup_destination>>
fnVars   == <<args, ret>>
vars == <<pc, err, repoVars, updVars, cfgVars, keyVars, encryption_key,
          fsVars, idx, now, fnVars, effects>>

----------------------------------------------------------------------------
(* Bounds *)

NumCommits == 3      \* commits of the linear history c1 <- c2 <- ...
MaxLogLen  == 3      \* longest hash log given to the distance computation

----------------------------------------------------------------------------
(* Results: Ok(v), Err(e), or a panic *)

Ok(v)      == [kind |-> "ok",    val |-> v, why |-> ""]
Err(e)     == [kind |-> "err",   val |-> 0, why |-> e]
Panic(e)   == [kind |-> "panic", val |-> 0, why |-> e]
NoResult   == [kind |-> "none",  val |-> 0, why |-> ""]

Abs(n) == IF n < 0 THEN -n ELSE n

\* Vec::iter().position(|r| r == x): index of the first match, 0-based;
\* -1 stands for None.
Position(list, x) ==
    IF \E i \in 1..Len(list) : list[i] = x
    THEN (CHOOSE i \in 1..Len(list) :
             list[i] = x /\ \A j \in 1..(i - 1) : list[j] # x) - 1
    ELSE -1

----------------------------------------------------------------------------
(* Commit hashes *)

HashNames == <<"c1", "c2", "c3", "c4", "c5", "c6">>
Commits   == {HashNames[i] : i \in 1..NumCommits}

CommitNo(h) == CHOOSE i \in 1..NumCommits : HashNames[i] = h

\* `git log` order: the ancestry of commit h, oldest first
Ancestry(h) == [i \in 1..CommitNo(h) |-> HashNames[i]]

LogLimit == 10000            \* `git log -10000`

\* the last n elements of a sequence
LastN(seq, n) ==
    IF Len(seq) <= n THEN seq ELSE SubSeq(seq, Len(seq) - n + 1, Len(seq))

\* SecretsRepo::get_hash_list: `git log -10000 --pretty=format:%H` from the
\* commit HEAD resolves to, reversed (oldest first).
get_hash_list(head_commit) ==
    IF head_commit \in Commits
    THEN Ok(LastN(Ancestry(head_commit), LogLimit))
    ELSE Ok(<<>>)

----------------------------------------------------------------------------
(* git.rs: SecretsRepo::distance_between_local_commit_hashes *)

\* mutants
M_distance_no_short_circuit(hash1, hash2, hash_list) ==
    IF hash_list.kind = "err" THEN Err("DataDecryptionError")
    ELSE IF Position(hash_list.val, hash1) = -1 THEN Panic("pinned hash not in history")
    ELSE IF Position(hash_list.val, hash2) = -1 THEN Panic("hash not in history")
    ELSE Ok(Abs(Position(hash_list.val, hash2) - Position(hash_list.val, hash1)))

M_distance_no_abs(hash1, hash2, hash_list) ==
    IF hash1 = hash2 THEN Ok(0)
    ELSE IF hash_list.kind = "err" THEN Err("DataDecryptionError")
    ELSE IF Position(hash_list.val, hash1) = -1 THEN Panic("pinned hash not in history")
    ELSE IF Position(hash_list.val, hash2) = -1 THEN Panic("hash not in history")
    ELSE Ok(Position(hash_list.val, hash2) - Position(hash_list.val, hash1))

M_distance_missing_is_first(hash1, hash2, hash_list) ==
    IF hash1 = hash2 THEN Ok(0)
    ELSE IF hash_list.kind = "err" THEN Err("DataDecryptionError")
    ELSE LET i1 == IF Position(hash_list.val, hash1) = -1 THEN 0
                   ELSE Position(hash_list.val, hash1)
             i2 == IF Position(hash_list.val, hash2) = -1 THEN 0
                   ELSE Position(hash_list.val, hash2)
         IN  Ok(Abs(i2 - i1))

\* mutant: the behaviour the comment above secrets_repo_distance_between
\* describes
M_distance_zero_unless_forward(hash1, hash2, hash_list) ==
    IF hash1 = hash2 THEN Ok(0)
    ELSE IF hash_list.kind = "err" THEN Err("DataDecryptionError")
    ELSE IF Position(hash_list.val, hash1) = -1 THEN Ok(0)
    ELSE IF Position(hash_list.val, hash2) = -1 THEN Ok(0)
    ELSE IF Position(hash_list.val, hash2) < Position(hash_list.val, hash1)
    THEN Ok(0)
    ELSE Ok(Position(hash_list.val, hash2) - Position(hash_list.val, hash1))

\* hash_list is the result of self.get_hash_list(), which the code evaluates
\* only after the comparison of the two hashes.
distance_between_local_commit_hashes(hash1, hash2, hash_list) ==
    IF hash1 = hash2 THEN Ok(0)
    ELSE IF hash_list.kind = "err" THEN Err("DataDecryptionError")
    ELSE LET index_of_configure_file_hash == Position(hash_list.val, hash1)
             index_of_latest_repo_hash    == Position(hash_list.val, hash2)
         IN  IF index_of_configure_file_hash = -1
             THEN Panic("pinned hash not in history")
             ELSE IF index_of_latest_repo_hash = -1
             THEN Panic("hash not in history")
             ELSE Ok(Abs(index_of_latest_repo_hash
                         - index_of_configure_file_hash))

----------------------------------------------------------------------------
(* string.rs *)

None    == [kind |-> "none", val |-> 0, why |-> ""]
Some(v) == [kind |-> "some", val |-> v, why |-> ""]

index_of_string_in(string, strings) ==
    IF Position(strings, string) = -1 THEN None
    ELSE Some(Position(strings, string))

\* mutant: equal strings are at distance 0 without a look at the list
M_string_distance_short_circuit(string1, string2, strings) ==
    IF string1 = string2 THEN Some(0)
    ELSE IF index_of_string_in(string1, strings).kind = "some"
            /\ index_of_string_in(string2, strings).kind = "some"
    THEN Some(Abs(index_of_string_in(string1, strings).val
                  - index_of_string_in(string2, strings).val))
    ELSE None

distance_between_strings_in(string1, string2, strings) ==
    LET str1_ix == index_of_string_in(string1, strings)
        str2_ix == index_of_string_in(string2, strings)
    IN  IF str1_ix.kind = "some" /\ str2_ix.kind = "some"
        THEN Some(Abs(str1_ix.val - str2_ix.val))
        ELSE None

----------------------------------------------------------------------------
(* Text: a sequence of one-character strings *)

Digits == <<"0", "1", "2", "3", "4", "5", "6", "7", "8", "9">>

\* char::is_digit(10)
is_digit(c) == \E d \in 1..10 : Digits[d] = c

DigitVal(c) == (CHOOSE d \in 1..10 : Digits[d] = c) - 1

\* str::contains
Contains(text, pat) ==
    \E i \in 1..(Len(text) - Len(pat) + 1) :
        SubSeq(text, i, i + Len(pat) - 1) = pat

I32Max == 2147483647

RECURSIVE DecimalValue(_)
DecimalValue(ds) ==
    IF ds = <<>> THEN 0
    ELSE 10 * DecimalValue(SubSeq(ds, 1, Len(ds) - 1)) + DigitVal(ds[Len(ds)])

RECURSIVE StripZeros(_)
StripZeros(ds) ==
    IF ds # <<>> /\ Head(ds) = "0" THEN StripZeros(Tail(ds)) ELSE ds

\* str::parse::<i32> of a string of decimal digits: fails on the empty string
\* and on a value above i32::MAX = 2147483647 (leading zeros are accepted)
parse_i32(ds) ==
    LET sig == StripZeros(ds)
    IN  IF ds = <<>> THEN Err("GitStatusParsingError")
        ELSE IF Len(sig) > 10 THEN Err("GitStatusParsingError")
        ELSE IF Len(sig) = 10
                /\ (DecimalValue(SubSeq(sig, 1, 9)) > I32Max \div 10
                    \/ (DecimalValue(SubSeq(sig, 1, 9)) = I32Max \div 10
                        /\ DigitVal(sig[10]) > I32Max % 10))
        THEN Err("GitStatusParsingError")
        ELSE Ok(DecimalValue(sig))

\* the decimal rendering of a natural number
RECURSIVE Decimal(_)
Decimal(n) ==
    IF n < 10 THEN <<Digits[n + 1]>>
    ELSE Decimal(n \div 10) \o <<Digits[(n % 10) + 1]>>

----------------------------------------------------------------------------
(* The text `git status --porcelain -b` prints *)

HEADER_CHARS   == <<"#", "#", " ">>
DOTS           == <<".", ".", ".">>
AHEAD          == <<"a", "h", "e", "a", "d">>
BEHIND         == <<"b", "e", "h", "i", "n", "d">>
OPEN           == <<" ", "[">>
CLOSE          == <<"]">>
SP             == <<" ">>
NL             == <<"\n">>

BranchText(b) ==
    IF b = "trunk" THEN <<"t", "r", "u", "n", "k">>
    ELSE IF b = "v2" THEN <<"v", "2">>
    ELSE <<"H", "E", "A", "D">>

\* the "## ..." line: the branch, its upstream when it has one, and how far
\* the two have diverged
BranchLine(b, has_upstream, ahead, behind) ==
    IF b = "HEAD"
    THEN HEADER_CHARS
         \o <<"H", "E", "A", "D", " ", "(", "n", "o", " ",
              "b", "r", "a", "n", "c", "h", ")">>
         \o NL
    ELSE IF ~has_upstream THEN HEADER_CHARS \o BranchText(b) \o NL
    ELSE HEADER_CHARS \o BranchText(b) \o DOTS
         \o <<"o", "r", "i", "g", "i", "n", "/">> \o BranchText(b)
         \o (IF ahead > 0 /\ behind > 0
             THEN OPEN \o AHEAD \o SP \o Decimal(ahead) \o <<",", " ">>
                       \o BEHIND \o SP \o Decimal(behind) \o CLOSE
             ELSE IF ahead > 0
             THEN OPEN \o AHEAD \o SP \o Decimal(ahead) \o CLOSE
             ELSE IF behind > 0
             THEN OPEN \o BEHIND \o SP \o Decimal(behind) \o CLOSE
             ELSE <<>>)
         \o NL

\* the lines of changed or untracked files
FileLine(f) ==
    IF f = "keys"
    THEN <<" ", "M", " ", "k", "e", "y", "s", ".", "j", "s", "o", "n", "\n">>
    ELSE IF f = "notes"
    THEN <<"?", "?", " ", "n", "o", "t", "e", "s", "7", ".", "t", "x", "t", "\n">>
    ELSE IF f = "behind"
    THEN <<"?", "?", " ", "b", "e", "h", "i", "n", "d", ".", "m", "d", "\n">>
    ELSE <<"?", "?", " ", "d", "u", "m", "p", "-", "2", "0", "2", "6", "1", "1", "0", "3", "0", "9", "3", "0", "0", "0", ".", "s", "q", "l", "\n">>

FileLines(fs) ==
    (IF "keys" \in fs THEN FileLine("keys") ELSE <<>>)
    \o (IF "notes" \in fs THEN FileLine("notes") ELSE <<>>)
    \o (IF "behind" \in fs THEN FileLine("behind") ELSE <<>>)
    \o (IF "dump" \in fs THEN FileLine("dump") ELSE <<>>)

StatusText(b, has_upstream, ahead, behind, fs) ==
    BranchLine(b, has_upstream, ahead, behind) \o FileLines(fs)

----------------------------------------------------------------------------
(* git.rs: RepoStatus *)

\* mutants
M_synced_keeps_count == [sync_state |-> "Synced", distance |-> 1]

\* RepoStatus::synced
synced == [sync_state |-> "Synced", distance |-> 0]

\* RepoStatus::from_repo; output is what running `git status --porcelain -b`
\* returned: Ok(stdout) or an io error.
from_repo(output) ==
    IF output.kind = "err" THEN Err("DataDecryptionError")
    ELSE LET st == output.val
         IN  IF Contains(st, DOTS) THEN Ok(synced)
             ELSE LET digits == parse_i32(SelectSeq(st, is_digit))
                  IN  IF digits.kind = "err" THEN digits
                      ELSE IF Contains(st, AHEAD)
                      THEN Ok([sync_state |-> "Ahead",
                               distance |-> digits.val])
                      ELSE IF Contains(st, BEHIND)
                      THEN Ok([sync_state |-> "Behind",
                               distance |-> digits.val])
                      ELSE Err("GitStatusUnknownError")

----------------------------------------------------------------------------
(* git.rs: the secrets repository *)

Branches == {"trunk", "v2"}

LastCommit == HashNames[NumCommits]

Repo == [headRef |-> headRef, detachedAt |-> detachedAt, tip |-> tip,
         worktree |-> worktree]

RepoOk(r)       == [kind |-> "ok", repo |-> r, why |-> ""]
RepoErr(r, why) == [kind |-> "err", repo |-> r, why |-> why]

\* SecretsRepo::current_branch: the shorthand of HEAD, "HEAD" when detached
current_branch(r) == r.headRef

\* SecretsRepo::current_hash: the commit HEAD resolves to ("" = none)
current_hash(r) ==
    IF r.headRef = "HEAD" THEN r.detachedAt ELSE r.tip[r.headRef]

local_branch_names(r) == {b \in Branches : r.tip[b] # ""}

\* what `git rev-parse origin/<branch>` prints when there is no such ref
OriginName(b) ==
    IF b = "trunk" THEN "origin/trunk"
    ELSE IF b = "v2" THEN "origin/v2"
    ELSE "origin/"

\* SecretsRepo::latest_remote_hash_for_branch: stdout of git rev-parse,
\* whose exit status is not looked at
latest_remote_hash_for_branch(branch_name) ==
    IF branch_name \in Branches /\ remote[branch_name] # ""
    THEN remote[branch_name]
    ELSE OriginName(branch_name)

\* SecretsRepo::checkout_local_hash
checkout_local_hash(r, hash) ==
    IF hash \notin Commits THEN RepoErr(r, "SecretsRepoError")
    ELSE RepoOk([r EXCEPT !.headRef = "HEAD", !.detachedAt = hash,
                          !.worktree = hash])

\* SecretsRepo::switch_to_branch_at_revision: set_head(refs/heads/<branch>),
\* then reset --hard to the revision, which moves the branch HEAD is on
switch_to_branch_at_revision(r, branch_name, revision) ==
    IF branch_name = "HEAD" THEN checkout_local_hash(r, revision)
    ELSE IF branch_name \notin Branches THEN RepoErr(r, "SecretsRepoError")
    ELSE LET on_branch == [r EXCEPT !.headRef = branch_name,
                                    !.detachedAt = ""]
         IN  IF revision \notin Commits
             THEN RepoErr(on_branch, "SecretsRepoError")
             ELSE RepoOk([on_branch EXCEPT !.tip[branch_name] = revision,
                                           !.worktree = revision])

\* the summary `git status --porcelain -b` prints for the repository
ahead_of_remote(r) ==
    IF r.headRef \in Branches /\ remote[r.headRef] # ""
          /\ CommitNo(r.tip[r.headRef]) > CommitNo(remote[r.headRef])
    THEN CommitNo(r.tip[r.headRef]) - CommitNo(remote[r.headRef]) ELSE 0

behind_remote(r) ==
    IF r.headRef \in Branches /\ remote[r.headRef] # ""
          /\ CommitNo(r.tip[r.headRef]) < CommitNo(remote[r.headRef])
    THEN CommitNo(remote[r.headRef]) - CommitNo(r.tip[r.headRef]) ELSE 0

git_status(r) ==
    StatusText(r.headRef,
               r.headRef \in Branches /\ remote[r.headRef] # "",
               ahead_of_remote(r), behind_remote(r), dirty)

\* SecretsRepo::commits_ahead_of_configuration: the distance between the
\* pinned hash and the latest remote hash of the configured branch
commits_ahead_of_configuration(r, conf) ==
    distance_between_local_commit_hashes(
        conf.pinned_hash,
        latest_remote_hash_for_branch(conf.branch),
        get_hash_list(current_hash(r)))

----------------------------------------------------------------------------
(* Paths: a directory (sequence of names) and a file name (sequence of     *)
(* name parts and "." / "-" separators)                                    *)

MaxClock == 1        \* last second of the clock
MaxFiles == 2        \* longest files_to_copy list

Path(dir, name) == [dir |-> dir, name |-> name]
NoPath == Path(<<>>, <<>>)

\* index of the last "." of a file name that separates stem and extension
\* (0 = none): a leading "." starts a hidden file, not an extension
LastDot(name) ==
    IF \E i \in 2..Len(name) : name[i] = "."
    THEN CHOOSE i \in 2..Len(name) :
            name[i] = "." /\ \A j \in (i + 1)..Len(name) : name[j] # "."
    ELSE 0

\* Path::file_stem, Path::extension
file_stem(name) ==
    IF LastDot(name) = 0 THEN name ELSE SubSeq(name, 1, LastDot(name) - 1)

extension(name) ==
    IF LastDot(name) = 0 THEN <<>>
    ELSE SubSeq(name, LastDot(name) + 1, Len(name))

\* date.format("%Y-%m-%d-%H-%M-%S"): one text per second
Timestamp(t) == <<"t0", "t1", "t2", "t3">>[t + 1]

\* File::get_encrypted_destination: <project root>/.configure-files/<file
\* name>.enc when the project root is found, <destination>.enc otherwise
get_encrypted_destination(file, project_root_found) ==
    IF project_root_found
    THEN Path(<<".configure-files">>, file.destination.name \o <<".", "enc">>)
    ELSE Path(file.destination.dir, file.destination.name \o <<".", "enc">>)

\* File::get_decrypted_destination
get_decrypted_destination(file) == file.destination

\* File::get_backup_destination_for_date
get_backup_destination_for_date(file, date) ==
    LET stem == file_stem(file.destination.name)
        ext  == extension(file.destination.name)
        filename == IF ext = <<>>
                    THEN stem \o <<"-", Timestamp(date), ".", "bak">>
                    ELSE stem \o <<"-", Timestamp(date), ".">> \o ext
                              \o <<".", "bak">>
    IN  Path(file.destination.dir, filename)

\* the mappings a configuration may list
DestA == Path(<<"a">>, <<"f", ".", "txt">>)
DestB == Path(<<"b">>, <<"f", ".", "txt">>)
DestG == Path(<<>>, <<"g">>)

Mapping(src, dst) == [source |-> src, destination |-> dst]

Mappings == {Mapping("s1", DestA), Mapping("s2", DestB), Mapping("s2", DestG)}

Destinations == {m.destination : m \in Mappings}

AllPaths ==
    Destinations
    \cup {get_encrypted_destination(m, TRUE) : m \in Mappings}
    \cup {get_backup_destination_for_date(m, t) :
             m \in Mappings, t \in 0..MaxClock}

----------------------------------------------------------------------------
(* File contents *)

Absent == [kind |-> "absent", src |-> "", ver |-> 0, key |-> "", nonce |-> 0]

\* plaintext: version ver of the secret src
Plain(src, ver) ==
    [kind |-> "plain", src |-> src, ver |-> ver, key |-> "", nonce |-> 0]

\* at least 24 bytes that no key opens
Garbage == [kind |-> "garbage", src |-> "", ver |-> 0, key |-> "", nonce |-> 0]

\* fewer than 24 bytes
TooShort == [kind |-> "short", src |-> "", ver |-> 0, key |-> "", nonce |-> 0]

\* the length of a content matters only against NONCE_SIZE = 24
HasNonce(content) == content.kind \in {"sealed", "garbage", "plain"}

\* the content of the secret src in the tree of a commit: s1 changes with
\* every commit, s2 is added by the second commit and never changes
SecretContent(src, commit) ==
    IF commit \notin Commits THEN Absent
    ELSE IF src = "s1" THEN Plain("s1", CommitNo(commit))
    ELSE IF CommitNo(commit) >= 2 THEN Plain("s2", 1)
    ELSE Absent

\* the content a project file had before the secrets were last applied
OldContent == Plain("s1", 0)

----------------------------------------------------------------------------
(* encryption.rs *)

MaxNonce == 1        \* number of nonces gen_nonce draws from
Nonces == 1..MaxNonce

\* encrypt_bytes: nonce || secretbox::seal(input, nonce, key)
encrypt_bytes(input, key, nonce) ==
    [kind |-> "sealed", src |-> input.src, ver |-> input.ver, key |-> key,
     nonce |-> nonce]

\* decrypt_bytes: slicing off the nonce panics on a short input;
\* secretbox::open fails on a wrong key and on bytes that were not sealed
decrypt_bytes(input, key) ==
    IF ~HasNonce(input) THEN Panic("slice index out of range")
    ELSE IF input.kind = "sealed" /\ input.key = key
    THEN Ok(Plain(input.src, input.ver))
    ELSE Err("DataDecryptionError")

\* encrypt_file: the content written to output_path, or the error
encrypt_file(input_content, key, nonce) ==
    IF input_content.kind = "absent" THEN Err("InputFileNotReadable")
    ELSE Ok(encrypt_bytes(input_content, key, nonce))

\* decrypt_file: the content written to output_path, or the error
decrypt_file(input_content, key) ==
    IF input_content.kind = "absent" THEN Err("InputFileNotReadable")
    ELSE decrypt_bytes(input_content, key)

\* decode_key / EncryptionKey::from_str: base64 text -> 32 byte key
KEY_SIZE == 32

trim(text) == IF text = " QQ==A" THEN "QQ==A" ELSE text

\* base64 decode: the bytes (named) and their number; "" = not base64
Base64Decode(text) ==
    IF text = "QQ==A" THEN [bytes |-> "keyA", len |-> 32]
    ELSE IF text = "QQ==B" THEN [bytes |-> "keyB", len |-> 32]
    ELSE IF text = "c2hvcnQ=" THEN [bytes |-> "short", len |-> 5]
    ELSE [bytes |-> "", len |-> -1]

decode_key(key) ==
    LET decoded_key == Base64Decode(trim(key))
    IN  IF decoded_key.len = -1
        THEN [kind |-> "err", val |-> "", why |-> "DecryptionKeyEncodingError"]
        ELSE IF decoded_key.len # KEY_SIZE
        THEN [kind |-> "err", val |-> "", why |-> "DecryptionKeyParsingError"]
        ELSE [kind |-> "ok", val |-> decoded_key.bytes, why |-> ""]

----------------------------------------------------------------------------
(* fs.rs: keys.json *)

Projects == {"proj", "other"}
NoEntry  == "<none>"

KeysAbsent == [state |-> "absent", keys |-> [p \in Projects |-> NoEntry]]
KeysInvalid == [state |-> "invalid", keys |-> [p \in Projects |-> NoEntry]]
Keys(map) == [state |-> "ok", keys |-> map]

\* find_keys_file: an absent keys.json is created with an empty map
find_keys_file(keys_file) ==
    IF keys_file.state = "absent"
    THEN Keys([p \in Projects |-> NoEntry])
    ELSE keys_file

\* mutant: the environment override is used for encryption too
M_encryption_key_env_first(conf) ==
    IF envKey # "unset" THEN decode_key(envKey)
    ELSE IF find_keys_file(keysJson).state = "invalid"
    THEN [kind |-> "err", val |-> "", why |-> "KeysFileIsNotValid"]
    ELSE IF find_keys_file(keysJson).keys[conf.project_name] = NoEntry
    THEN [kind |-> "err", val |-> "", why |-> "MissingProjectKey"]
    ELSE decode_key(find_keys_file(keysJson).keys[conf.project_name])

\* encryption_key_for_configuration: the key of the project in keys.json
encryption_key_for_configuration(conf) ==
    LET keys == find_keys_file(keysJson)
    IN  IF keys.state = "invalid"
        THEN [kind |-> "err", val |-> "", why |-> "KeysFileIsNotValid"]
        ELSE IF keys.keys[conf.project_name] = NoEntry
        THEN [kind |-> "err", val |-> "", why |-> "MissingProjectKey"]
        ELSE decode_key(keys.keys[conf.project_name])

\* hash_file: the SHA-256 digest of a file's content, base64 encoded
hash_file(content) ==
    IF content.kind = "absent"
    THEN [kind |-> "err", val |-> <<>>, why |-> "DataDecryptionError"]
    ELSE [kind |-> "ok", val |-> <<"sha256", content>>, why |-> ""]

\* the directories create_dir_all(parent of path) makes sure exist
ParentDirs(path) == {SubSeq(path.dir, 1, n) : n \in 0..Len(path.dir)}

----------------------------------------------------------------------------
(* Values of the variables an operation does not use *)

NoConfiguration ==
    [project_name |-> "", branch |-> "", pinned_hash |-> "",
     files_to_copy |-> <<>>]

NoStatus == [sync_state |-> "", distance |-> 0]

IdleRepo ==
    /\ headRef = "" /\ detachedAt = "" /\ tip = <<>> /\ remote = <<>>
    /\ worktree = "" /\ dirty = {}

IdleUpdate ==
    /\ interactive = FALSE /\ starting_branch = "" /\ starting_ref = ""
    /\ status = NoStatus /\ drift = -1 /\ fetch_outcome = ""

IdleFiles ==
    /\ configuration = NoConfiguration /\ configFile = NoConfiguration
    /\ keysJson = <<>> /\ envTemp = "unset" /\ envKey = "unset"
    /\ encryption_key = "" /\ files = <<>> /\ dirs = {} /\ idx = 0
    /\ backup_destination = <<>> /\ now = 0

----------------------------------------------------------------------------
(* SpecDist: the two distance computations on arbitrary inputs *)

\* hash logs: duplicate-free sequences of commit hashes
HashLogs ==
    {l \in UNION {[1..n -> Commits] : n \in 0..MaxLogLen} :
        \A i, j \in 1..Len(l) : i # j => l[i] # l[j]}

InitDist ==
    /\ pc = "call" /\ err = ""
    /\ IdleRepo /\ IdleUpdate /\ IdleFiles
    \* the hashes asked about: commits, the empty text and "ff", a well-formed
    \* hash of no commit; the log is unavailable when git could not be run
    /\ \E h1 \in Commits \cup {"", "ff"}, h2 \in Commits \cup {"", "ff"},
          l \in {Ok(x) : x \in HashLogs}
                  \cup {[kind |-> "err", val |-> <<>>, why |-> "io"]} :
          args = [fn |-> "", hash1 |-> h1, hash2 |-> h2, hash_list |-> l]
    /\ ret = NoResult /\ effects = <<>>

CallDistance ==
    /\ pc = "call" /\ args.fn = ""
    /\ ret' = distance_between_local_commit_hashes(
                  args.hash1, args.hash2, args.hash_list)
    /\ args' = [args EXCEPT !.fn = "distance_between_local_commit_hashes"]
    /\ pc' = "returned"
    /\ UNCHANGED <<err, repoVars, updVars, cfgVars, keyVars, encryption_key,
                   fsVars, idx, now, effects>>

CallStringDistance ==
    /\ pc = "call" /\ args.fn = ""
    /\ args.hash_list.kind = "ok"
    /\ ret' = distance_between_strings_in(
                  args.hash1, args.hash2, args.hash_list.val)
    /\ args' = [args EXCEPT !.fn = "distance_between_strings_in"]
    /\ pc' = "returned"
    /\ UNCHANGED <<err, repoVars, updVars, cfgVars, keyVars, encryption_key,
                   fsVars, idx, now, effects>>

NextDist == CallDistance \/ CallStringDistance

SpecDist == InitDist /\ [][NextDist]_vars

----------------------------------------------------------------------------
(* SpecStatus: RepoStatus::from_repo on the summaries git prints *)

MaxAheadBehind == 3     \* largest ahead/behind count of a summary

StatusInputs ==
    {i \in [branch : {"trunk", "v2", "HEAD"}, has_upstream : BOOLEAN,
            ahead : 0..MaxAheadBehind, behind : 0..MaxAheadBehind,
            fs : SUBSET {"keys", "notes", "behind", "dump"}] :
        /\ i.branch = "HEAD" => ~i.has_upstream
        /\ ~i.has_upstream => (i.ahead = 0 /\ i.behind = 0)}

InitStatus ==
    /\ pc = "call" /\ err = ""
    /\ IdleRepo /\ IdleUpdate /\ IdleFiles
    /\ \E i \in StatusInputs, io_ok \in BOOLEAN :
          args = [fn |-> "", input |-> i,
                  output |-> IF io_ok
                             THEN Ok(StatusText(i.branch, i.has_upstream,
                                                i.ahead, i.behind, i.fs))
                             ELSE [kind |-> "err", val |-> <<>>,
                                   why |-> "io"]]
    /\ ret = NoResult /\ effects = <<>>

CallFromRepo ==
    /\ pc = "call" /\ args.fn = ""
    /\ ret' = from_repo(args.output)
    /\ args' = [args EXCEPT !.fn = "from_repo"]
    /\ pc' = "returned"
    /\ UNCHANGED <<err, repoVars, updVars, cfgVars, keyVars, encryption_key,
                   fsVars, idx, now, effects>>

NextStatus == CallFromRepo

SpecStatus == InitStatus /\ [][NextStatus]_vars

----------------------------------------------------------------------------
(* fs.rs: decrypt_files_for_configuration *)

CurrentFile == configuration.files_to_copy[idx]

\* mutants of the key selection
M_decryption_key_permanent_first ==
    IF envKey # "unset" THEN decode_key(envKey)
    ELSE IF envTemp # "unset" THEN decode_key(envTemp)
    ELSE IF encryption_key_for_configuration(configuration).kind = "ok"
    THEN encryption_key_for_configuration(configuration)
    ELSE [kind |-> "err", val |-> "", why |-> "MissingDecryptionKey"]

\* lines 236-260: the temporary variable, then the permanent one, then
\* keys.json
decryption_key ==
    IF envTemp # "unset" THEN decode_key(envTemp)
    ELSE IF envKey # "unset" THEN decode_key(envKey)
    ELSE IF encryption_key_for_configuration(configuration).kind = "ok"
    THEN encryption_key_for_configuration(configuration)
    ELSE [kind |-> "err", val |-> "", why |-> "MissingDecryptionKey"]

ApplyKey ==
    /\ pc = "apply_start"
    /\ keysJson' = IF envTemp = "unset" /\ envKey = "unset"
                   THEN find_keys_file(keysJson) ELSE keysJson
    /\ IF decryption_key.kind = "ok"
       THEN /\ encryption_key' = decryption_key.val
            /\ idx' = 1
            /\ pc' = "apply_loop"
            /\ err' = err
       ELSE /\ pc' = "failed"
            /\ err' = decryption_key.why
            /\ UNCHANGED <<encryption_key, idx>>
    /\ UNCHANGED <<repoVars, updVars, cfgVars, envTemp, envKey, fsVars, now,
                   fnVars, effects>>

\* mutant: the backup is made before the encrypted original is looked for
M_ApplyNext_backup_first ==
    /\ pc = "apply_loop"
    /\ idx <= Len(configuration.files_to_copy)
    /\ LET source == get_encrypted_destination(CurrentFile, TRUE)
           destination == get_decrypted_destination(CurrentFile)
       IN  /\ dirs' = dirs \cup ParentDirs(destination)
           /\ IF files[destination].kind # "absent"
              THEN \E t \in now..MaxClock :
                     LET backup == get_backup_destination_for_date(
                                       CurrentFile, t)
                     IN  /\ now' = t
                         /\ files' = [files EXCEPT
                                        ![backup] = files[destination],
                                        ![destination] = Absent]
                         /\ backup_destination' = backup
                         /\ effects' = Append(effects, "rename")
                         /\ IF files[source].kind = "absent"
                            THEN pc' = "failed"
                                 /\ err' = "EncryptedFileMissing"
                            ELSE pc' = "apply_decrypt" /\ err' = err
              ELSE /\ IF files[source].kind = "absent"
                      THEN pc' = "failed" /\ err' = "EncryptedFileMissing"
                      ELSE pc' = "apply_decrypt" /\ err' = err
                   /\ backup_destination' = NoPath
                   /\ UNCHANGED <<files, now, effects>>
    /\ UNCHANGED <<repoVars, updVars, cfgVars, keyVars, encryption_key, idx,
                   fnVars>>

\* lines 262-284: the head of the loop, up to the rename of an existing
\* destination to its backup path
ApplyNext ==
    /\ pc = "apply_loop"
    /\ idx <= Len(configuration.files_to_copy)
    /\ LET source == get_encrypted_destination(CurrentFile, TRUE)
           destination == get_decrypted_destination(CurrentFile)
       IN  /\ dirs' = dirs \cup ParentDirs(destination)
           /\ IF files[source].kind = "absent"
              THEN /\ pc' = "failed"
                   /\ err' = "EncryptedFileMissing"
                   /\ UNCHANGED <<files, backup_destination, now, effects>>
              ELSE IF files[destination].kind # "absent"
              THEN \E t \in now..MaxClock :
                     LET backup == get_backup_destination_for_date(
                                       CurrentFile, t)
                     IN  /\ now' = t
                         /\ files' = [files EXCEPT
                                        ![backup] = files[destination],
                                        ![destination] = Absent]
                         /\ backup_destination' = backup
                         /\ effects' = Append(effects, "rename")
                         /\ pc' = "apply_decrypt"
                         /\ err' = err
              ELSE /\ backup_destination' = NoPath
                   /\ pc' = "apply_decrypt"
                   /\ UNCHANGED <<files, now, err, effects>>
    /\ UNCHANGED <<repoVars, updVars, cfgVars, keyVars, encryption_key, idx,
                   fnVars>>

\* lines 291 and 312: decrypt_file(source, destination, key)
ApplyDecrypt ==
    /\ pc = "apply_decrypt"
    /\ LET source == get_encrypted_destination(CurrentFile, TRUE)
           destination == get_decrypted_destination(CurrentFile)
           decrypted == decrypt_file(files[source], encryption_key)
       IN  IF decrypted.kind = "ok"
           THEN /\ files' = [files EXCEPT ![destination] = decrypted.val]
                /\ effects' = Append(effects, "write_decrypted")
                /\ IF backup_destination = NoPath
                   THEN idx' = idx + 1 /\ pc' = "apply_loop"
                   ELSE idx' = idx /\ pc' = "apply_compare"
                /\ err' = err
           ELSE /\ pc' = "failed"
                /\ err' = decrypted.why
                /\ UNCHANGED <<files, idx, effects>>
    /\ UNCHANGED <<repoVars, updVars, cfgVars, keyVars, encryption_key, dirs,
                   backup_destination, now, fnVars>>

\* mutant: the backup is kept whatever the two digests are
M_same_digest_never(new_file_hash, original_file_hash) == FALSE

\* line 300: hash_file(destination)? == hash_file(backup_destination)?
same_digest(new_file_hash, original_file_hash) ==
    new_file_hash.val = original_file_hash.val

\* lines 293-305: the backup is removed when it equals the new file
ApplyCompare ==
    /\ pc = "apply_compare"
    /\ LET destination == get_decrypted_destination(CurrentFile)
           new_file_hash == hash_file(files[destination])
           original_file_hash == hash_file(files[backup_destination])
       IN  IF new_file_hash.kind = "err" \/ original_file_hash.kind = "err"
           THEN /\ pc' = "failed"
                /\ err' = "DataDecryptionError"
                /\ UNCHANGED <<files, idx, effects>>
           ELSE /\ IF same_digest(new_file_hash, original_file_hash)
                   THEN /\ files' = [files EXCEPT
                                       ![backup_destination] = Absent]
                        /\ effects' = Append(effects, "remove_backup")
                   ELSE UNCHANGED <<files, effects>>
                /\ idx' = idx + 1
                /\ pc' = "apply_loop"
                /\ err' = err
    /\ UNCHANGED <<repoVars, updVars, cfgVars, keyVars, encryption_key, dirs,
                   backup_destination, now, fnVars>>

\* line 316: Ok(()) after the last mapping
ApplyFinish ==
    /\ pc = "apply_loop"
    /\ idx > Len(configuration.files_to_copy)
    /\ pc' = "apply_done"
    /\ UNCHANGED <<err, repoVars, updVars, cfgVars, keyVars, encryption_key,
                   fsVars, idx, now, fnVars, effects>>

----------------------------------------------------------------------------
(* configure.rs: update_configuration *)

SetRepo(r) ==
    /\ headRef' = r.headRef
    /\ detachedAt' = r.detachedAt
    /\ tip' = r.tip
    /\ worktree' = r.worktree

\* lines 210-219: read the .configure file, capture the baseline
UpdStart ==
    /\ pc = "start"
    /\ configuration' = configFile
    /\ IF current_hash(Repo) = ""
       THEN /\ pc' = "failed"
            /\ err' = "Unable to determine current mobile secrets branch"
            /\ UNCHANGED <<starting_branch, starting_ref>>
       ELSE /\ starting_branch' = current_branch(Repo)
            /\ starting_ref' = current_hash(Repo)
            /\ pc' = "fetch"
            /\ err' = err
    /\ UNCHANGED <<repoVars, interactive, status, drift, fetch_outcome,
                   configFile, keyVars, encryption_key, fsVars, idx, now,
                   fnVars, effects>>

\* lines 231-233, git.rs fetch_secrets_latest_remote_data: `git fetch` is
\* run and its exit status is not looked at; only a failure to run the
\* command is an error. A fetch that succeeds may move the remote branches
\* forward.
UpdFetch ==
    /\ pc = "fetch"
    /\ \E outcome \in {"not run", "exit failure", "fetched"} :
          /\ fetch_outcome' = outcome
          /\ IF outcome = "not run"
             THEN /\ pc' = "failed"
                  /\ err' = "Unable to fetch latest mobile secrets"
                  /\ remote' = remote
             ELSE /\ pc' = "branch"
                  /\ err' = err
                  /\ IF outcome = "exit failure" THEN remote' = remote
                     ELSE \E newer \in [Branches -> Commits \cup {""}] :
                            /\ \A b \in Branches :
                                  IF remote[b] = "" THEN newer[b] = ""
                                  ELSE /\ newer[b] # ""
                                       /\ CommitNo(newer[b])
                                            >= CommitNo(remote[b])
                            /\ remote' = newer
    /\ UNCHANGED <<headRef, detachedAt, tip, worktree, dirty, interactive,
                   starting_branch, starting_ref, status, drift, cfgVars,
                   keyVars, encryption_key, fsVars, idx, now, fnVars,
                   effects>>

\* lines 240-242 and prompt_for_branch: the operator selects a local branch
UpdBranch ==
    /\ pc = "branch"
    /\ IF ~interactive
       THEN /\ pc' = "status"
            /\ UNCHANGED <<err, configuration>>
       ELSE IF current_branch(Repo) \notin local_branch_names(Repo)
       THEN /\ pc' = "failed"
            /\ err' = "Unable to find current branch in repo branch list"
            /\ UNCHANGED configuration
       ELSE \E selected_branch \in local_branch_names(Repo) :
              /\ configuration' =
                    [configuration EXCEPT !.branch = selected_branch]
              /\ pc' = "status"
              /\ err' = err
    /\ UNCHANGED <<repoVars, updVars, configFile, keyVars, encryption_key,
                   fsVars, idx, now, fnVars, effects>>

\* ui::confirm: the answers the operator can give
confirm == BOOLEAN

\* lines 254-273: `!interactive || match status.sync_state { .. }`
should_continue(sync_state) ==
    IF ~interactive \/ sync_state = "Synced" THEN {TRUE} ELSE confirm

\* lines 248-278: probe the status; in interactive mode Ahead and Behind
\* need the operator's confirmation
UpdStatus ==
    /\ pc = "status"
    /\ LET probed == from_repo(Ok(git_status(Repo)))
       IN  IF probed.kind # "ok"
           THEN /\ pc' = "failed"
                /\ err' = "Unable to get secrets repo status"
                /\ status' = status
           ELSE /\ status' = probed.val
                /\ err' = err
                /\ \E continue \in should_continue(probed.val.sync_state) :
                      pc' = IF continue THEN "drift" ELSE "declined"
    /\ UNCHANGED <<repoVars, interactive, starting_branch, starting_ref,
                   drift, fetch_outcome, cfgVars, keyVars, encryption_key, fsVars, idx, now,
                   fnVars, effects>>

\* mutant: a pin that is up to date is advanced like any other
M_nothing_has_changed_never(distance) == FALSE

\* line 292: `if distance == 0`
nothing_has_changed(distance) == distance = 0

\* mutant: an unattended run may leave the pin where it is
M_use_latest_secrets_asks == confirm

\* line 304: `!interactive || confirm(&message)`
use_latest_secrets == IF ~interactive THEN {TRUE} ELSE confirm

\* lines 285-325: compute the drift and advance the pinned hash
UpdDrift ==
    /\ pc = "drift"
    /\ LET distance == commits_ahead_of_configuration(Repo, configuration)
           latest_commit_hash ==
               latest_remote_hash_for_branch(configuration.branch)
           switched == switch_to_branch_at_revision(
                           Repo, configuration.branch, latest_commit_hash)
       IN  IF distance.kind # "ok"
           THEN /\ pc' = "failed"
                /\ err' = distance.why
                /\ UNCHANGED <<headRef, detachedAt, tip, worktree, drift,
                               configuration, effects>>
           ELSE IF nothing_has_changed(distance.val)
           THEN /\ drift' = distance.val
                /\ configuration' =
                      [configuration EXCEPT !.pinned_hash = latest_commit_hash]
                /\ pc' = "persist"
                /\ UNCHANGED <<headRef, detachedAt, tip, worktree, err,
                               effects>>
           ELSE \E confirmed \in use_latest_secrets :
                  /\ drift' = distance.val
                  /\ IF ~confirmed
                     THEN /\ pc' = "persist"
                          /\ UNCHANGED <<headRef, detachedAt, tip, worktree,
                                         err, configuration, effects>>
                     ELSE /\ SetRepo(switched.repo)
                          /\ effects' = Append(effects, "checkout")
                          /\ IF switched.kind = "ok"
                             THEN /\ configuration' =
                                        [configuration EXCEPT
                                           !.pinned_hash = latest_commit_hash]
                                  /\ pc' = "persist"
                                  /\ err' = err
                             ELSE /\ pc' = "failed"
                                  /\ err' = "Unable to check out branch at revision"
                                  /\ UNCHANGED configuration
    /\ UNCHANGED <<remote, dirty, interactive, starting_branch, starting_ref,
                   status, fetch_outcome, configFile, keyVars, encryption_key, fsVars, idx,
                   now, fnVars>>

\* mutant: the configuration is not written before the files are
M_UpdPersist_skipped ==
    /\ pc = "persist"
    /\ pc' = "encrypt_key"
    /\ UNCHANGED <<err, repoVars, updVars, cfgVars, keyVars,
                   encryption_key, fsVars, idx, now, fnVars, effects>>

\* lines 330-332: write the configuration to the .configure file; when the
\* file cannot be created the run panics
UpdPersist ==
    /\ pc = "persist"
    /\ \E created \in BOOLEAN :
          IF created
          THEN /\ configFile' = configuration
               /\ effects' = Append(effects, "write_configuration")
               /\ pc' = "encrypt_key"
               /\ err' = err
          ELSE /\ pc' = "failed"
               /\ err' = "Unable to write configuration"
               /\ UNCHANGED <<configFile, effects>>
    /\ UNCHANGED <<repoVars, updVars, configuration, keyVars,
                   encryption_key, fsVars, idx, now, fnVars>>

\* lines 337-338: the key the files are encrypted with
UpdKey ==
    /\ pc = "encrypt_key"
    /\ keysJson' = find_keys_file(keysJson)
    /\ LET key == encryption_key_for_configuration(configuration)
       IN  IF key.kind = "ok"
           THEN /\ encryption_key' = key.val
                /\ idx' = 1
                /\ pc' = "encrypt_loop"
                /\ err' = err
           ELSE /\ pc' = "failed"
                /\ err' = "Unable to find encryption key"
                /\ UNCHANGED <<encryption_key, idx>>
    /\ UNCHANGED <<repoVars, updVars, cfgVars, envTemp, envKey, fsVars, now,
                   fnVars, effects>>

\* mutant: a failure removes the encrypted files the loop has written
M_UpdEncrypt_transactional ==
    /\ pc = "encrypt_loop"
    /\ idx <= Len(configuration.files_to_copy)
    /\ LET destination == get_encrypted_destination(CurrentFile, TRUE)
       IN  /\ dirs' = dirs \cup ParentDirs(destination)
           /\ \E nonce \in Nonces :
                LET written == encrypt_file(
                                   SecretContent(CurrentFile.source, worktree),
                                   encryption_key, nonce)
                IN  IF written.kind = "ok"
                    THEN /\ files' = [files EXCEPT
                                        ![destination] = written.val]
                         /\ effects' = Append(effects, "write_encrypted")
                         /\ idx' = idx + 1
                         /\ UNCHANGED <<pc, err>>
                    ELSE /\ pc' = "failed"
                         /\ err' = "Unable to copy encrypted files"
                         /\ files' =
                               [p \in DOMAIN files |->
                                  IF \E i \in 1..(idx - 1) :
                                       p = get_encrypted_destination(
                                               configuration.files_to_copy[i],
                                               TRUE)
                                  THEN Absent ELSE files[p]]
                         /\ UNCHANGED <<idx, effects>>
    /\ UNCHANGED <<repoVars, updVars, cfgVars, keyVars, encryption_key,
                   backup_destination, now, fnVars>>

\* fs.rs write_encrypted_files_for_configuration, one mapping: the source
\* is read from the working tree of the secrets repository
UpdEncrypt ==
    /\ pc = "encrypt_loop"
    /\ idx <= Len(configuration.files_to_copy)
    /\ LET destination == get_encrypted_destination(CurrentFile, TRUE)
       IN  /\ dirs' = dirs \cup ParentDirs(destination)
           /\ \E nonce \in Nonces :
                LET written == encrypt_file(
                                   SecretContent(CurrentFile.source, worktree),
                                   encryption_key, nonce)
                IN  IF written.kind = "ok"
                    THEN /\ files' = [files EXCEPT
                                        ![destination] = written.val]
                         /\ effects' = Append(effects, "write_encrypted")
                         /\ idx' = idx + 1
                         /\ UNCHANGED <<pc, err>>
                    ELSE /\ pc' = "failed"
                         /\ err' = "Unable to copy encrypted files"
                         /\ UNCHANGED <<files, idx, effects>>
    /\ UNCHANGED <<repoVars, updVars, cfgVars, keyVars, encryption_key,
                   backup_destination, now, fnVars>>

\* mutant: the repository is left where the update put it
M_UpdRollback_skipped ==
    /\ pc = "encrypt_loop"
    /\ idx > Len(configuration.files_to_copy)
    /\ pc' = "apply_start"
    /\ UNCHANGED <<err, repoVars, updVars, cfgVars, keyVars, encryption_key,
                   fsVars, idx, now, fnVars, effects>>

\* lines 345-347: roll the secrets repository back to the baseline
UpdRollback ==
    /\ pc = "encrypt_loop"
    /\ idx > Len(configuration.files_to_copy)
    /\ LET switched == switch_to_branch_at_revision(
                           Repo, starting_branch, starting_ref)
       IN  /\ SetRepo(switched.repo)
           /\ effects' = Append(effects, "rollback")
           /\ IF switched.kind = "ok"
              THEN pc' = "apply_start" /\ err' = err
              ELSE pc' = "failed" /\ err' = "Unable to roll back to branch"
    /\ UNCHANGED <<remote, dirty, updVars, cfgVars, keyVars, encryption_key,
                   fsVars, idx, now, fnVars>>

\* lines 352-357: apply_configuration has returned; return the configuration
UpdReturn ==
    /\ pc = "apply_done"
    /\ pc' = "done"
    /\ UNCHANGED <<err, repoVars, updVars, cfgVars, keyVars, encryption_key,
                   fsVars, idx, now, fnVars, effects>>

----------------------------------------------------------------------------
(* SpecApply: `configure apply` on a project tree *)

\* what the encrypted file of a destination holds when it was written by an
\* earlier update
Payload(destination) ==
    IF destination = DestG THEN Plain("s2", 1) ELSE Plain("s1", 1)

PayloadOfEnc(p) ==
    Payload((CHOOSE m \in Mappings : get_encrypted_destination(m, TRUE) = p)
                .destination)

\* project trees: a destination is absent, holds an older content or
\* already holds the current content; an encrypted file is absent, sealed
\* under the project key, or damaged
TreeOf(dst_state, enc_state) ==
    [p \in AllPaths |->
        IF p \in DOMAIN dst_state
        THEN (IF dst_state[p] = "old" THEN OldContent
              ELSE IF dst_state[p] = "same" THEN Payload(p)
              ELSE Absent)
        ELSE IF p \in DOMAIN enc_state
        THEN (IF enc_state[p] = "sealed"
              THEN encrypt_bytes(PayloadOfEnc(p), "keyA", 1)
              ELSE IF enc_state[p] = "garbage" THEN Garbage
              ELSE IF enc_state[p] = "short" THEN TooShort
              ELSE Absent)
        ELSE Absent]

ProjectTrees(file_list) ==
    LET used == {file_list[i] : i \in 1..Len(file_list)}
        dsts == {m.destination : m \in used}
        encs == {get_encrypted_destination(m, TRUE) : m \in used}
    IN  {TreeOf(ds, es) :
            ds \in [dsts -> {"absent", "old", "same"}],
            es \in [encs -> {"absent", "short", "garbage", "sealed"}]}

DirsOf(tree) ==
    UNION {ParentDirs(p) : p \in {q \in AllPaths : tree[q].kind # "absent"}}
    \cup {<<>>}

InitApply ==
    /\ pc = "apply_start" /\ err = ""
    /\ IdleRepo /\ IdleUpdate
    /\ \E fl \in UNION {[1..k -> Mappings] : k \in 1..MaxFiles} :
          /\ configuration = [project_name |-> "proj", branch |-> "trunk",
                              pinned_hash |-> "c1", files_to_copy |-> fl]
          /\ files \in ProjectTrees(fl)
    /\ configFile = configuration
    /\ dirs = DirsOf(files)
    /\ envTemp \in {"unset", "QQ==A", "not base64"}
    /\ envKey \in {"unset", "QQ==B"}
    /\ keysJson \in {KeysAbsent, KeysInvalid,
                     Keys([p \in Projects |->
                             IF p = "proj" THEN " QQ==A" ELSE "QQ==B"]),
                     Keys([p \in Projects |->
                             IF p = "proj" THEN "c2hvcnQ=" ELSE "QQ==B"])}
    /\ encryption_key = "" /\ idx = 0 /\ backup_destination = NoPath
    /\ now = 0
    \* args keeps the project tree as it was before the run
    /\ args = [tree |-> files] /\ ret = NoResult /\ effects = <<>>

NextApply ==
    ApplyKey \/ ApplyNext \/ ApplyDecrypt \/ ApplyCompare \/ ApplyFinish

SpecApply == InitApply /\ [][NextApply]_vars

----------------------------------------------------------------------------
(* Spec: `configure update` *)

UpdateFileLists ==
    {<<Mapping("s1", DestA)>>,
     <<Mapping("s1", DestA), Mapping("s2", DestG)>>,
     <<Mapping("s1", DestA), Mapping("s2", DestB)>>}

\* The secrets repository has the branch trunk and may have the branch v2;
\* each may have a remote counterpart. The project tree holds the files of
\* an earlier apply.
Init ==
    /\ pc = "start" /\ err = ""
    /\ interactive \in BOOLEAN
    /\ tip \in [Branches -> Commits \cup {""}]
    /\ tip["trunk"] # "" /\ tip["v2"] \in {"", LastCommit}
    /\ remote \in [Branches -> Commits \cup {""}]
    /\ remote["v2"] \in {"", "c1"}
    /\ headRef \in local_branch_names([tip |-> tip]) \cup {"HEAD"}
    /\ detachedAt = IF headRef = "HEAD" THEN LastCommit ELSE ""
    /\ worktree = IF headRef = "HEAD" THEN detachedAt ELSE tip[headRef]
    /\ dirty \in {{}, {"behind"}}
    /\ starting_branch = "" /\ starting_ref = ""
    /\ status = NoStatus /\ drift = -1 /\ fetch_outcome = ""
    /\ configuration = NoConfiguration
    /\ \E b \in Branches, h \in Commits \cup {""}, fl \in UpdateFileLists :
          configFile = [project_name |-> "proj", branch |-> b,
                        pinned_hash |-> h, files_to_copy |-> fl]
    /\ keysJson \in {KeysAbsent,
                     Keys([p \in Projects |->
                             IF p = "proj" THEN "QQ==A" ELSE "QQ==B"])}
    /\ envTemp \in {"unset", "QQ==B"}
    /\ envKey \in {"unset", "QQ==B"}
    /\ files = [p \in AllPaths |->
                  IF p \in Destinations THEN OldContent ELSE Absent]
    /\ dirs = DirsOf(files)
    /\ encryption_key = "" /\ idx = 0 /\ backup_destination = NoPath
    /\ now = 0
    \* args keeps the branch tips and the project tree as they were before
    \* the run
    /\ args = [tip |-> tip, tree |-> files]
    /\ ret = NoResult /\ effects = <<>>

Next ==
    \/ UpdStart \/ UpdFetch \/ UpdBranch \/ UpdStatus \/ UpdDrift
    \/ UpdPersist \/ UpdKey \/ UpdEncrypt \/ UpdRollback
    \/ ApplyKey \/ ApplyNext \/ ApplyDecrypt \/ ApplyCompare \/ ApplyFinish
    \/ UpdReturn

Spec == Init /\ [][Next]_vars

----------------------------------------------------------------------------
(* configure.rs, fs.rs: the .configure file as JSON text *)

\* JSON values of the members of a .configure document: strings, and
\* records of type "number" and "array"
JString(str)  == [type |-> "string", str |-> str, items |-> <<>>]

FieldNames == {"project_name", "branch", "pinned_hash", "files_to_copy"}

\* a document: text that is no JSON at all, or a JSON object
NotJson == [syntax |-> "invalid", members |-> <<>>]
JObject(members) == [syntax |-> "object", members |-> members]

\* Configuration::default
Configuration_default ==
    [project_name |-> "", branch |-> "", pinned_hash |-> "",
     files_to_copy |-> <<>>]

\* mutant: only the project name is looked at
M_is_empty_project_name_only(conf) == conf.project_name = ""

\* Configuration::is_empty: `self == &Configuration::default()`
is_empty(conf) == conf = Configuration_default

\* Configuration::to_string: serde_json::to_string_pretty of the four fields
to_string(conf) ==
    JObject([k \in FieldNames |->
               IF k = "files_to_copy"
               THEN [type |-> "array", str |-> "",
                     items |-> conf.files_to_copy]
               ELSE JString(conf[k])])

\* Configuration::from_str: serde needs every field, with its type; members
\* of other names are ignored
from_str(doc) ==
    IF doc.syntax # "object"
    THEN [kind |-> "err", val |-> Configuration_default,
          why |-> "ConfigureFileNotValid"]
    ELSE IF \E k \in FieldNames :
               \/ k \notin DOMAIN doc.members
               \/ doc.members[k].type
                    # (IF k = "files_to_copy" THEN "array" ELSE "string")
    THEN [kind |-> "err", val |-> Configuration_default,
          why |-> "ConfigureFileNotValid"]
    ELSE [kind |-> "ok",
          val |-> [project_name |-> doc.members["project_name"].str,
                   branch |-> doc.members["branch"].str,
                   pinned_hash |-> doc.members["pinned_hash"].str,
                   files_to_copy |-> doc.members["files_to_copy"].items],
          why |-> ""]

\* what a path of the file system holds
\* (kind "absent": nothing, kind "dir": a directory)
TextFile(doc) == [kind |-> "file", doc |-> doc]

\* the two places a .configure file is looked for: <project root>/.configure
\* and the path given on the command line
DefaultPath == "default"
GivenPath   == "given"
NoneGiven   == "none"

ReadErr(why, tree) ==
    [kind |-> "err", val |-> Configuration_default, why |-> why,
     path |-> NoneGiven, tree |-> tree]

\* write_configuration_to: File::create, then write_all of the JSON text
write_configuration_to(conf, configure_file, tree, creatable) ==
    IF creatable
    THEN [kind |-> "ok", val |-> conf, why |-> "", path |-> configure_file,
          tree |-> [tree EXCEPT ![configure_file] = TextFile(to_string(conf))]]
    ELSE ReadErr("ConfigureFileNotWritable", tree)

\* find_configure_file: the default path, where a file that does not exist
\* is created with the default configuration
find_configure_file(tree, creatable, in_project) ==
    IF ~in_project THEN ReadErr("ProjectNotPresent", tree)
    ELSE IF tree[DefaultPath].kind = "absent"
    THEN LET written == write_configuration_to(
                            Configuration_default, DefaultPath, tree, creatable)
         IN  IF written.kind = "ok"
             THEN [written EXCEPT !.path = DefaultPath]
             ELSE written
    ELSE [kind |-> "ok", val |-> Configuration_default, why |-> "",
          path |-> DefaultPath, tree |-> tree]

\* mutant: a path that is given is treated like the default path
M_resolve_creates_given(configure_file_path, tree, creatable, in_project) ==
    IF configure_file_path # NoneGiven
    THEN IF tree[configure_file_path].kind = "absent" /\ creatable
         THEN [kind |-> "ok", val |-> Configuration_default, why |-> "",
               path |-> configure_file_path,
               tree |-> [tree EXCEPT ![configure_file_path] =
                           TextFile(to_string(Configuration_default))]]
         ELSE [kind |-> "ok", val |-> Configuration_default, why |-> "",
               path |-> configure_file_path, tree |-> tree]
    ELSE find_configure_file(tree, creatable, in_project)

\* resolve_configure_file_path: a path that is given is taken as it is
resolve_configure_file_path(configure_file_path, tree, creatable, in_project) ==
    IF configure_file_path # NoneGiven
    THEN [kind |-> "ok", val |-> Configuration_default, why |-> "",
          path |-> configure_file_path, tree |-> tree]
    ELSE find_configure_file(tree, creatable, in_project)

\* read_configuration_from_file: the configuration read, and the tree as the
\* call leaves it
read_configuration_from_file(configure_file_path, tree, creatable, in_project) ==
    LET resolved == resolve_configure_file_path(
                        configure_file_path, tree, creatable, in_project)
    IN  IF resolved.kind # "ok" THEN resolved
        ELSE IF resolved.tree[resolved.path].kind # "file"
        THEN ReadErr("ConfigureFileNotReadable", resolved.tree)
        ELSE LET parsed == from_str(resolved.tree[resolved.path].doc)
             IN  [kind |-> parsed.kind, val |-> parsed.val,
                  why |-> parsed.why, path |-> resolved.path,
                  tree |-> resolved.tree]

\* write_configuration: the file written is the one find_configure_file
\* returns
write_configuration(conf, tree, creatable, in_project) ==
    LET found == find_configure_file(tree, creatable, in_project)
    IN  IF found.kind # "ok" THEN found
        ELSE write_configuration_to(conf, found.path, found.tree, creatable)

----------------------------------------------------------------------------
(* SpecEntry: lib.rs `update` and `apply` up to the point where they hand   *)
(* over to setup, to update_configuration or to apply_configuration, and    *)
(* update_project_name, update_branch_name, update_pinned_hash              *)

\* a document with one member more than the four fields
WithComment(conf) ==
    JObject([k \in FieldNames \cup {"comment"} |->
               IF k = "comment" THEN JString("by hand")
               ELSE to_string(conf).members[k]])

\* what the two paths may hold: nothing, a directory, a serialized
\* configuration, a document serde rejects (no JSON, no members, a member
\* missing, a member of the wrong type), a document with a member more
SampleContents ==
    {[kind |-> "absent", doc |-> NotJson], [kind |-> "dir", doc |-> NotJson]}
    \cup {TextFile(to_string(c)) : c \in
            {Configuration_default,
             [Configuration_default EXCEPT !.project_name = "proj"],
             [Configuration_default EXCEPT !.branch = "trunk"],
             [Configuration_default EXCEPT !.pinned_hash = "c1"],
             [Configuration_default EXCEPT
                !.files_to_copy = <<Mapping("s1", DestA)>>],
             [project_name |-> "proj", branch |-> "trunk",
              pinned_hash |-> "c1",
              files_to_copy |-> <<Mapping("s1", DestA)>>]}}
    \cup {TextFile(d) : d \in
            {NotJson,
             JObject(<<>>),
             JObject([k \in FieldNames \ {"pinned_hash"} |->
                        to_string(Configuration_default).members[k]]),
             JObject([to_string(Configuration_default).members
                        EXCEPT !["branch"] =
                          [type |-> "number", str |-> "7", items |-> <<>>]])}}
    \cup {TextFile(WithComment(Configuration_default))}

InitEntry ==
    /\ pc = "entry" /\ err = ""
    /\ IdleRepo
    /\ interactive \in BOOLEAN
    /\ starting_branch = "" /\ starting_ref = ""
    /\ status = NoStatus /\ drift = -1 /\ fetch_outcome = ""
    /\ configuration = NoConfiguration /\ configFile = NoConfiguration
    /\ keysJson = <<>> /\ envTemp = "unset" /\ envKey = "unset"
    /\ encryption_key = "" /\ dirs = {} /\ idx = 0
    /\ backup_destination = <<>> /\ now = 0
    /\ files \in [{DefaultPath, GivenPath} -> SampleContents]
    /\ \E command \in {"update", "apply", "update_project_name",
                         "update_branch_name", "update_pinned_hash"},
          configure_file_path \in {NoneGiven, GivenPath},
          creatable \in BOOLEAN, in_project \in BOOLEAN :
          args = [command |-> command,
                  configure_file_path |-> configure_file_path,
                  creatable |-> creatable, in_project |-> in_project,
                  tree |-> files, value |-> "new value"]
    /\ ret = NoResult /\ effects = <<>>

\* lib.rs lines 39-40 and 85-86: read_configuration_from_file(..).expect(..)
LibRead ==
    /\ pc = "entry"
    /\ args.command \in {"update", "apply"}
    /\ LET read == read_configuration_from_file(
                       args.configure_file_path, files, args.creatable,
                       args.in_project)
       IN  /\ files' = read.tree
           /\ effects' = IF read.tree # files
                         THEN Append(effects, "write_configuration")
                         ELSE effects
           /\ ret' = [kind |-> read.kind, val |-> read.val, why |-> read.why]
           /\ IF read.kind = "ok"
              THEN /\ configuration' = read.val
                   /\ pc' = "read"
                   /\ err' = err
              ELSE /\ configuration' = configuration
                   /\ pc' = "failed"
                   /\ err' = "Unable to read configuration from .configure file"
    /\ UNCHANGED <<repoVars, updVars, configFile, keyVars, encryption_key,
                   dirs, backup_destination, idx, now, args>>

\* lib.rs lines 42-50 and 88-96: an empty configuration goes to setup when
\* interactive and is only warned about otherwise
LibDispatch ==
    /\ pc = "read"
    /\ pc' = IF is_empty(configuration)
             THEN (IF interactive THEN "setup" ELSE "warned")
             ELSE (IF args.command = "update" THEN "start"
                   ELSE "apply_start")
    /\ UNCHANGED <<err, repoVars, updVars, cfgVars, keyVars, encryption_key,
                   fsVars, idx, now, fnVars, effects>>

\* lib.rs lines 119-156, update_project_name, update_branch_name and
\* update_pinned_hash: read the configuration, assign the field, and save
\* with write_configuration
LibUpdateField ==
    /\ pc = "entry"
    /\ args.command \notin {"update", "apply"}
    /\ LET read == read_configuration_from_file(
                       args.configure_file_path, files, args.creatable,
                       args.in_project)
           field == IF args.command = "update_project_name"
                    THEN "project_name"
                    ELSE IF args.command = "update_branch_name"
                    THEN "branch"
                    ELSE "pinned_hash"
           changed == [read.val EXCEPT ![field] = args.value]
           written == write_configuration(changed, read.tree, args.creatable,
                                          args.in_project)
       IN  /\ ret' = [kind |-> read.kind, val |-> read.val, why |-> read.why]
           /\ IF read.kind # "ok"
              THEN /\ files' = read.tree
                   /\ configuration' = configuration
                   /\ pc' = "failed"
                   /\ err' = "Unable to read project configuration"
              ELSE /\ files' = written.tree
                   /\ configuration' = changed
                   /\ IF written.kind = "ok"
                      THEN pc' = "saved" /\ err' = err
                      ELSE pc' = "failed"
                           /\ err' = "Unable to save project configuration"
           /\ effects' = IF files' # files
                         THEN Append(effects, "write_configuration")
                         ELSE effects
    /\ UNCHANGED <<repoVars, updVars, configFile, keyVars, encryption_key,
                   dirs, backup_destination, idx, now, args>>

NextEntry == LibRead \/ LibDispatch \/ LibUpdateField

SpecEntry == InitEntry /\ [][NextEntry]_vars

----------------------------------------------------------------------------
(* SpecCrypt: encrypt_bytes followed by decrypt_bytes *)

\* what can happen to nonce || ciphertext before it is decrypted: it is cut
\* to fewer than NONCE_SIZE bytes, cut somewhere behind the nonce, or has
\* bytes changed; secretbox::open authenticates, so every change of the
\* bytes behind the nonce makes it fail
Damage(sealed, how) ==
    IF how = "none" THEN sealed
    ELSE IF how = "cut below the nonce" THEN TooShort
    ELSE Garbage

InitCrypt ==
    /\ pc = "call" /\ err = ""
    /\ IdleRepo /\ IdleUpdate /\ IdleFiles
    \* byte sequences to encrypt: the empty one and versions of the secrets
    /\ \E input \in {Plain("", 0)}
                       \cup {Plain(src, ver) : src \in {"s1", "s2"},
                                               ver \in 0..NumCommits},
          key \in {"keyA", "keyB"}, other_key \in {"keyA", "keyB"},
          nonce \in Nonces,
          how \in {"none", "cut below the nonce", "cut behind the nonce",
                   "bytes changed"} :
          args = [fn |-> "", input |-> input, key |-> key, nonce |-> nonce,
                  other_key |-> other_key, damage |-> how]
    /\ ret = NoResult /\ effects = <<>>

\* encryption.rs test_end_to_end_encryption: encrypt, then decrypt
CallRoundTrip ==
    /\ pc = "call" /\ args.fn = ""
    /\ ret' = decrypt_bytes(
                  Damage(encrypt_bytes(args.input, args.key, args.nonce),
                         args.damage),
                  args.other_key)
    /\ args' = [args EXCEPT !.fn = "decrypt_bytes"]
    /\ pc' = "returned"
    /\ UNCHANGED <<err, repoVars, updVars, cfgVars, keyVars, encryption_key,
                   fsVars, idx, now, effects>>

NextCrypt == CallRoundTrip

SpecCrypt == InitCrypt /\ [][NextCrypt]_vars

----------------------------------------------------------------------------
(* configure.rs: setup_configuration (SpecSetup) *)

\* SecretsRepo::switch_to_branch: set_head(refs/heads/<branch>) and nothing
\* else; the working tree is left as it is
switch_to_branch(r, branch_name) ==
    IF branch_name \notin Branches THEN RepoErr(r, "SecretsRepoError")
    ELSE RepoOk([r EXCEPT !.headRef = branch_name, !.detachedAt = ""])

\* SecretsRepo::latest_local_hash_for_branch: the commit HEAD resolves to
\* after the branch was switched to, and the repository as the call leaves it
latest_local_hash_for_branch(r, branch_name) ==
    LET switched == IF current_branch(r) # branch_name
                    THEN switch_to_branch(r, branch_name)
                    ELSE RepoOk(r)
    IN  IF switched.kind # "ok"
        THEN [kind |-> "err", val |-> "", repo |-> switched.repo]
        ELSE IF current_hash(switched.repo) = ""
        THEN [kind |-> "err", val |-> "", repo |-> switched.repo]
        ELSE [kind |-> "ok", val |-> current_hash(switched.repo),
              repo |-> switched.repo]

\* generate_encryption_key_if_needed: keys.json as the call leaves it;
\* generated is the text of the key generate_key returns
generate_encryption_key_if_needed(conf, generated) ==
    IF encryption_key_for_configuration(conf).kind = "ok"
    THEN [kind |-> "ok", file |-> keysJson, why |-> ""]
    ELSE LET keys == find_keys_file(keysJson)
         IN  IF keys.state = "invalid"
             THEN [kind |-> "err", file |-> keys,
                   why |-> "KeysFileIsNotValid"]
             ELSE [kind |-> "ok",
                   file |-> Keys([keys.keys EXCEPT
                                    ![conf.project_name] = generated]),
                   why |-> ""]

\* lines 364-375: the project name is asked for when there is none, the
\* branch is always asked for
SetupPrompt ==
    /\ pc = "setup"
    /\ IF current_branch(Repo) \notin local_branch_names(Repo)
       THEN /\ pc' = "failed"
            /\ err' = "Unable to find current branch in repo branch list"
            /\ UNCHANGED configuration
       ELSE \E project_name \in Projects,
               selected_branch \in local_branch_names(Repo) :
              /\ configuration' =
                    [configuration EXCEPT
                       !.project_name = IF configuration.project_name = ""
                                        THEN project_name
                                        ELSE configuration.project_name,
                       !.branch = selected_branch]
              /\ pc' = "setup_pin"
              /\ err' = err
    /\ UNCHANGED <<repoVars, updVars, configFile, keyVars, encryption_key,
                   fsVars, idx, now, fnVars, effects>>

\* line 378, Configuration::set_pinned_hash_from_repo
SetupPin ==
    /\ pc = "setup_pin"
    /\ LET latest_hash ==
               latest_local_hash_for_branch(Repo, configuration.branch)
       IN  /\ SetRepo(latest_hash.repo)
           /\ effects' = IF current_branch(Repo) # configuration.branch
                         THEN Append(effects, "switch_to_branch")
                         ELSE effects
           /\ IF latest_hash.kind = "ok"
              THEN /\ configuration' =
                         [configuration EXCEPT !.pinned_hash = latest_hash.val]
                   /\ pc' = "setup_save"
                   /\ err' = err
              ELSE /\ pc' = "failed"
                   /\ err' = "Unable to fetch the latest secrets hash"
                   /\ UNCHANGED configuration
    /\ UNCHANGED <<remote, dirty, updVars, configFile, keyVars,
                   encryption_key, fsVars, idx, now, fnVars>>

\* lines 381-385: files are added as the operator enters them, and the
\* configuration is written to the .configure file
SetupSave ==
    /\ pc = "setup_save"
    /\ \E added \in {<<>>, <<Mapping("s1", DestA)>>}, created \in BOOLEAN :
          /\ configuration' =
                [configuration EXCEPT
                   !.files_to_copy = configuration.files_to_copy \o added]
          /\ IF created
             THEN /\ configFile' = configuration'
                  /\ effects' = Append(effects, "write_configuration")
                  /\ pc' = "setup_key"
                  /\ err' = err
             ELSE /\ pc' = "failed"
                  /\ err' = "Unable to save configure file"
                  /\ UNCHANGED <<configFile, effects>>
    /\ UNCHANGED <<repoVars, updVars, keyVars, encryption_key, fsVars, idx,
                   now, fnVars>>

\* lines 387-389: a key for the project is made when it has none
SetupKey ==
    /\ pc = "setup_key"
    /\ \E generated \in {"QQ==A", "QQ==B"} :
          LET saved == generate_encryption_key_if_needed(
                           configuration, generated)
          IN  /\ keysJson' = saved.file
              /\ IF saved.kind = "ok"
                 THEN pc' = "setup_done" /\ err' = err
                 ELSE /\ pc' = "failed"
                      /\ err' = "Unable to generate an encryption key for this project"
    /\ UNCHANGED <<repoVars, updVars, cfgVars, envTemp, envKey,
                   encryption_key, fsVars, idx, now, fnVars, effects>>

\* setup is entered from init with the configuration read from the file, or
\* from update and apply with an empty one; keys.json is absent, no JSON,
\* or a map that has no entry, a key, or an entry that is no key for the
\* project
InitSetup ==
    /\ pc = "setup" /\ err = ""
    /\ IdleUpdate
    /\ tip \in [Branches -> Commits \cup {""}]
    /\ tip["trunk"] # ""
    /\ remote = [b \in Branches |-> ""]
    /\ headRef \in local_branch_names([tip |-> tip]) \cup {"HEAD"}
    /\ detachedAt = IF headRef = "HEAD" THEN LastCommit ELSE ""
    /\ worktree = IF headRef = "HEAD" THEN detachedAt ELSE tip[headRef]
    /\ dirty = {}
    /\ configuration \in
          {Configuration_default,
           [Configuration_default EXCEPT !.project_name = "proj"],
           [project_name |-> "proj", branch |-> "trunk",
            pinned_hash |-> "c1",
            files_to_copy |-> <<Mapping("s2", DestG)>>]}
    /\ configFile = configuration
    /\ keysJson \in
          {KeysAbsent, KeysInvalid} \cup
          {Keys([p \in Projects |-> IF p = "proj" THEN mine ELSE theirs]) :
             mine \in {NoEntry, "QQ==A", "c2hvcnQ=", "not base64"},
             theirs \in {NoEntry, "QQ==B"}}
    /\ envTemp = "unset" /\ envKey = "unset"
    /\ encryption_key = "" /\ files = <<>> /\ dirs = {} /\ idx = 0
    /\ backup_destination = <<>> /\ now = 0
    \* args keeps the checked-out branch as it was before setup
    /\ args = [headRef |-> headRef]
    /\ ret = NoResult /\ effects = <<>>

NextSetup == SetupPrompt \/ SetupPin \/ SetupSave \/ SetupKey

SpecSetup == InitSetup /\ [][NextSetup]_vars

----------------------------------------------------------------------------
(* Properties of the distance computation (SpecDist) *)

DistReturned ==
    pc = "returned" /\ args.fn = "distance_between_local_commit_hashes"

InLog(h) ==
    /\ args.hash_list.kind = "ok"
    /\ \E i \in 1..Len(args.hash_list.val) : args.hash_list.val[i] = h

\* C2: the distance between a hash and itself is 0 whatever the hash log is:
\* empty, unavailable, or without that hash.
C2_SameHashIsZero ==
    (DistReturned /\ args.hash1 = args.hash2) => ret = Ok(0)

C2_Witness ==
    /\ DistReturned /\ args.hash1 = args.hash2
    /\ args.hash_list.kind = "err"
    /\ ret = Ok(0)

Before(h, g) ==
    /\ InLog(h) /\ InLog(g)
    /\ Position(args.hash_list.val, h) < Position(args.hash_list.val, g)

StringDistReturned ==
    pc = "returned" /\ args.fn = "distance_between_strings_in"

----------------------------------------------------------------------------
(* Properties of RepoStatus::from_repo (SpecStatus) *)

StatusReturned == pc = "returned" /\ args.fn = "from_repo"

\* C5: a summary that contains "ahead N" is classified Ahead with magnitude
\* N and one that contains "behind N" Behind with magnitude N, also when the
\* branch line has the form local...remote.
C5_AheadBehindClassified ==
    (StatusReturned /\ args.output.kind = "ok")
    => /\ (args.input.ahead > 0 /\ args.input.behind = 0
             /\ args.input.fs = {})
          => /\ ret.kind = "ok"
             /\ ret.val.sync_state = "Ahead"
             /\ ret.val.distance = args.input.ahead
       /\ (args.input.behind > 0 /\ args.input.ahead = 0
             /\ args.input.fs = {})
          => /\ ret.kind = "ok"
             /\ ret.val.sync_state = "Behind"
             /\ ret.val.distance = args.input.behind

\* C6: a RepoStatus that from_repo returns has a distance that is not
\* negative, and a distance of 0 when it is Synced.
C6_SyncedHasZeroDistance ==
    (StatusReturned /\ ret.kind = "ok")
    => /\ ret.val.distance >= 0
       /\ ret.val.sync_state = "Synced" => ret.val.distance = 0

C6_Witness ==
    /\ StatusReturned /\ ret.kind = "ok"
    /\ args.input.ahead > 0
    /\ ret.val.sync_state = "Synced" /\ ret.val.distance = 0

\* the first maximal run of decimal digits of a text (<<>> = none)
FirstDigitRun(text) ==
    IF \A i \in 1..Len(text) : ~is_digit(text[i]) THEN <<>>
    ELSE LET first == CHOOSE i \in 1..Len(text) :
                         is_digit(text[i])
                         /\ \A j \in 1..(i - 1) : ~is_digit(text[j])
             last  == CHOOSE k \in first..Len(text) :
                         /\ \A j \in first..k : is_digit(text[j])
                         /\ (k = Len(text) \/ ~is_digit(text[k + 1]))
         IN  SubSeq(text, first, last)

\* C21: for a summary classified Ahead or Behind the magnitude is the value
\* of the first run of decimal digits of the summary; digits elsewhere in
\* the text, in a branch name or in a file name, do not change it.
C21_MagnitudeIsFirstDigitRun ==
    (StatusReturned /\ ret.kind = "ok"
        /\ ret.val.sync_state \in {"Ahead", "Behind"})
    => /\ FirstDigitRun(args.output.val) # <<>>
       /\ ret.val.distance = DecimalValue(FirstDigitRun(args.output.val))

----------------------------------------------------------------------------
(* Properties of decrypt_files_for_configuration (SpecApply) *)

Source == get_encrypted_destination(CurrentFile, TRUE)
Destination == get_decrypted_destination(CurrentFile)

\* C7: for a mapping whose destination already exists and whose decryption
\* succeeds, the old content is moved to the timestamped backup, the
\* destination receives the decrypted content, and the backup is there
\* afterwards exactly when the two contents differ, holding the old content.
C7_BackupKeptIffContentDiffers ==
    [][/\ (pc = "apply_loop" /\ pc' = "apply_decrypt"
             /\ files[Destination].kind # "absent")
          => /\ files'[backup_destination'] = files[Destination]
             /\ backup_destination' \in
                   {get_backup_destination_for_date(CurrentFile, t) :
                       t \in 0..MaxClock}
       /\ (pc = "apply_decrypt" /\ pc' = "apply_compare")
          => /\ files'[backup_destination] = files[backup_destination]
             /\ files'[Destination]
                   = Plain(files[Source].src, files[Source].ver)
       /\ (pc = "apply_compare" /\ pc' = "apply_loop")
          => /\ files'[Destination] = files[Destination]
             /\ (files'[backup_destination].kind # "absent")
                   <=> (files[backup_destination] # files[Destination])
             /\ (files'[backup_destination].kind # "absent")
                   => files'[backup_destination] = files[backup_destination]
      ]_vars

C7_Witness ==
    /\ pc = "apply_loop" /\ idx = 2
    /\ backup_destination # NoPath
    /\ files[backup_destination] = OldContent
    /\ files[configuration.files_to_copy[1].destination]
          = Payload(configuration.files_to_copy[1].destination)

\* C8: when the encrypted source of a mapping is missing the operation ends
\* with EncryptedFileMissing in that step, which changes no file, and no
\* later step follows: the destinations of that mapping and of the later
\* ones are not created, renamed or overwritten.
C8_MissingSourceStops ==
    [][/\ (err = "" /\ err' = "EncryptedFileMissing")
          => /\ pc = "apply_loop" /\ pc' = "failed"
             /\ files[Source].kind = "absent"
             /\ files' = files
       /\ (pc = "apply_loop" /\ idx <= Len(configuration.files_to_copy)
             /\ files[Source].kind = "absent")
          => (pc' = "failed" /\ err' = "EncryptedFileMissing"
                /\ files' = files)
       /\ (pc = "failed") => (pc' = "failed" /\ files' = files)
      ]_vars

C8_Witness ==
    /\ pc = "failed" /\ err = "EncryptedFileMissing"
    /\ idx = 2
    /\ files[Destination] = OldContent
    /\ files[configuration.files_to_copy[1].destination].kind = "plain"

\* C9: the decryption key is the value of CONFIGURE_ENCRYPTION_KEY_TEMP when
\* that is set, else the value of CONFIGURE_ENCRYPTION_KEY when that is set,
\* else the project's key of keys.json; with none of the three the operation
\* fails with the missing-key error before it touches a file.
KeyChosen == pc \in {"apply_loop", "apply_decrypt", "apply_compare",
                     "apply_done"}

RegistryKey ==
    IF keysJson.state = "ok" /\ keysJson.keys[configuration.project_name] # NoEntry
    THEN decode_key(keysJson.keys[configuration.project_name])
    ELSE [kind |-> "err", val |-> "", why |-> "none"]

C9_KeyPrecedence ==
    /\ [](KeyChosen =>
            /\ envTemp # "unset"
               => (decode_key(envTemp).kind = "ok"
                     /\ encryption_key = decode_key(envTemp).val)
            /\ (envTemp = "unset" /\ envKey # "unset")
               => (decode_key(envKey).kind = "ok"
                     /\ encryption_key = decode_key(envKey).val)
            /\ (envTemp = "unset" /\ envKey = "unset")
               => (RegistryKey.kind = "ok"
                     /\ encryption_key = RegistryKey.val))
    /\ [][(pc = "apply_start" /\ envTemp = "unset" /\ envKey = "unset"
             /\ RegistryKey.kind # "ok")
          => (pc' = "failed" /\ err' = "MissingDecryptionKey"
                /\ files' = files /\ dirs' = dirs)]_vars

C9_Witness ==
    /\ KeyChosen
    /\ envTemp = "unset" /\ envKey = "QQ==B"
    /\ RegistryKey.kind = "ok" /\ RegistryKey.val = "keyA"
    /\ encryption_key = "keyB"

----------------------------------------------------------------------------
(* Properties of update_configuration (Spec) *)

\* C1: a run of update_configuration that goes on after the status probe
\* and returns leaves the secrets repository on the branch and at the
\* revision captured at the start, whether or not it advanced the pin.
C1_BaselineRestored ==
    pc = "done" =>
        /\ current_branch(Repo) = starting_branch
        /\ current_hash(Repo) = starting_ref
        /\ worktree = starting_ref

C1_Witness ==
    /\ pc = "done"
    /\ drift > 0
    /\ configuration.pinned_hash # starting_ref
    /\ configFile.pinned_hash = configuration.pinned_hash
    /\ configuration.branch = starting_branch
    /\ current_hash(Repo) = starting_ref

\* C10: the files are encrypted under the key keys.json records for the
\* project, whatever the two key override variables are set to.
EncryptedSoFar ==
    {get_encrypted_destination(configuration.files_to_copy[i], TRUE) :
        i \in 1..(idx - 1)}

C10_EncryptsUnderRegistryKey ==
    pc = "encrypt_loop" =>
        /\ RegistryKey.kind = "ok"
        /\ encryption_key = RegistryKey.val
        /\ \A p \in EncryptedSoFar :
              files[p].kind = "sealed" /\ files[p].key = RegistryKey.val

C10_Witness ==
    /\ pc = "encrypt_loop" /\ idx = 2
    /\ envTemp = "QQ==B" /\ envKey = "QQ==B"
    /\ \A p \in EncryptedSoFar :
          files[p].kind = "sealed" /\ files[p].key = "keyA"

\* the operations on the project's encrypted and decrypted files
FileEffects == {"write_encrypted", "rename", "write_decrypted",
                "remove_backup"}

\* C11: in a run of update_configuration every write of an encrypted file
\* and every rename, write or removal of a project file comes after the
\* write of the configuration file.
C11_ConfigurationWrittenFirst ==
    \A i \in 1..Len(effects) :
        effects[i] \in FileEffects =>
            \E j \in 1..(i - 1) : effects[j] = "write_configuration"

C11_Witness ==
    /\ pc = "done"
    /\ Len(effects) >= 4
    /\ effects[1] = "checkout"
    /\ effects[2] = "write_configuration"
    /\ effects[3] = "write_encrypted"
    /\ \E i \in 4..Len(effects) : effects[i] = "rename"

\* C12: when the operator declines after an Ahead or Behind status, the
\* configuration that update_configuration returns equals the one read from
\* the file, and the run has done no checkout, no write of the configuration
\* file and no write of an encrypted or decrypted file.
C12_DeclineReturnsFileConfiguration ==
    (pc = "declined" /\ interactive
        /\ status.sync_state \in {"Ahead", "Behind"})
    => /\ configuration = configFile
       /\ effects = <<>>
       /\ current_branch(Repo) = starting_branch
       /\ current_hash(Repo) = starting_ref

\* C13: when the pinned hash already equals the latest remote hash of the
\* tracked branch, the drift step finds distance 0 and checks nothing out,
\* the pinned hash in memory and in the file stays the one the run started
\* with, and the secrets repository stays on its branch and revision up to
\* and including the return.
PinIsLatest ==
    configuration.pinned_hash
        = latest_remote_hash_for_branch(configuration.branch)

----------------------------------------------------------------------------
(* Properties of reading the configuration (SpecEntry) *)

\* the path the read looks at, and what it held before the read
ReadPath ==
    IF args.configure_file_path = NoneGiven THEN DefaultPath ELSE GivenPath

Malformed(content) ==
    content.kind = "file" /\ from_str(content.doc).kind = "err"

ReadReturned == pc # "entry" /\ args.command \in {"update", "apply"}

\* C14: for the default path and for a supplied path alike, reading an
\* absent file creates the default record there and succeeds with the empty
\* configuration, and reading a malformed file fails with
\* ConfigureFileNotValid and leaves the file as it is.
C14_AbsentCreatedAtAnyPath ==
    (ReadReturned /\ args.creatable /\ args.in_project)
    => /\ args.tree[ReadPath].kind = "absent"
          => /\ ret.kind = "ok" /\ ret.val = Configuration_default
             /\ files[ReadPath] = TextFile(to_string(Configuration_default))
       /\ Malformed(args.tree[ReadPath])
          => /\ ret.kind = "err" /\ ret.why = "ConfigureFileNotValid"
             /\ files = args.tree

\* C14 as amended: only the default path is created when absent; a supplied
\* path that is absent is ConfigureFileNotReadable and nothing is created.
C14_AbsentCreatedAtDefaultPathOnly ==
    ReadReturned
    => /\ (args.configure_file_path = NoneGiven /\ args.in_project
             /\ args.tree[DefaultPath].kind = "absent")
          => IF args.creatable
             THEN /\ ret.kind = "ok" /\ ret.val = Configuration_default
                  /\ files = [args.tree EXCEPT ![DefaultPath] =
                                TextFile(to_string(Configuration_default))]
             ELSE /\ ret.kind = "err"
                  /\ ret.why = "ConfigureFileNotWritable"
                  /\ files = args.tree
       /\ (args.configure_file_path = GivenPath
             /\ args.tree[GivenPath].kind = "absent")
          => /\ ret.kind = "err" /\ ret.why = "ConfigureFileNotReadable"
             /\ files = args.tree
       /\ (Malformed(args.tree[ReadPath])
             /\ (args.configure_file_path = NoneGiven => args.in_project))
          => /\ ret.kind = "err" /\ ret.why = "ConfigureFileNotValid"
             /\ files = args.tree

C14_Witness ==
    /\ ReadReturned
    /\ args.configure_file_path = GivenPath
    /\ args.tree[GivenPath].kind = "absent"
    /\ args.tree[DefaultPath].kind = "absent"
    /\ args.creatable /\ args.in_project
    /\ ret.kind = "err" /\ ret.why = "ConfigureFileNotReadable"
    /\ files[GivenPath].kind = "absent" /\ files[DefaultPath].kind = "absent"

AllFieldsEmpty(conf) ==
    /\ conf.project_name = "" /\ conf.branch = "" /\ conf.pinned_hash = ""
    /\ conf.files_to_copy = <<>>

\* C15: is_empty holds exactly of the configuration whose project_name,
\* branch and pinned_hash are "" and whose files_to_copy is empty; with such
\* a configuration update and apply never reach update_configuration or
\* apply_configuration: once it is read they change nothing, going to setup
\* when interactive and only warning otherwise, and a file that held it is
\* the same after the run.
C15_EmptyConfigurationIsGated ==
    /\ [](pc = "read"
            => (is_empty(configuration) <=> AllFieldsEmpty(configuration)))
    /\ [][(pc = "read" /\ AllFieldsEmpty(configuration))
            => /\ pc' = (IF interactive THEN "setup" ELSE "warned")
               /\ UNCHANGED <<files, effects, cfgVars, repoVars, keyVars>>]_vars
    /\ [](pc \in {"start", "apply_start"}
            => ~AllFieldsEmpty(configuration))
    /\ []((pc \in {"warned", "setup"}
             /\ args.tree[ReadPath].kind = "file")
            => (files = args.tree /\ effects = <<>>))

C15_Witness ==
    /\ pc = "warned" /\ ~interactive
    /\ args.command = "update"
    /\ args.tree[ReadPath] = TextFile(WithComment(Configuration_default))
    /\ AllFieldsEmpty(configuration)
    /\ files = args.tree /\ effects = <<>>

----------------------------------------------------------------------------
(* Properties of encrypt_bytes and decrypt_bytes (SpecCrypt) *)

\* C16: decrypting what encrypt_bytes returned under the same key returns
\* the input; under another key, or after the bytes were cut or changed,
\* decrypt_bytes returns an error, and never bytes.
C16_RoundTripOrError ==
    (pc = "returned" /\ args.fn = "decrypt_bytes")
    => IF args.damage = "none" /\ args.other_key = args.key
       THEN ret = Ok(args.input)
       ELSE ret.kind = "err"

\* C17: when the fetch fails, because git could not be run or because git
\* fetch reported a failure, the run ends at that step: no status is probed,
\* nothing is checked out, and neither the configuration file nor a project
\* file is written.
C17_FailedFetchAborts ==
    fetch_outcome \in {"not run", "exit failure"}
    => /\ pc = "failed"
       /\ status = NoStatus /\ drift = -1
       /\ effects = <<>>

\* C18: a non-interactive update is never stopped by a question: whatever
\* state the status probe returns the run goes on to the drift step, and
\* when the drift is greater than 0 it checks out the tracked branch at the
\* latest remote revision and makes that revision the pinned hash.
C18_UnattendedAlwaysAdvances ==
    /\ [](~interactive => pc # "declined")
    /\ [][(~interactive /\ pc = "status" /\ pc' # "failed")
            => (pc' = "drift"
                  /\ status'.sync_state \in {"Synced", "Ahead", "Behind"})]_vars
    /\ [][(~interactive /\ pc = "drift" /\ drift' > 0)
            => LET latest ==
                       latest_remote_hash_for_branch(configuration.branch)
               IN  /\ effects' = Append(effects, "checkout")
                   /\ headRef' = configuration.branch
                   /\ tip'[configuration.branch] = latest
                   /\ worktree' = latest
                   /\ configuration'.pinned_hash = latest
                   /\ pc' = "persist"]_vars

C18_Witness ==
    /\ ~interactive /\ pc = "persist"
    /\ status.sync_state = "Behind"
    /\ drift > 0
    /\ headRef = configuration.branch /\ headRef # starting_branch
    /\ configuration.pinned_hash = worktree
    /\ configuration.pinned_hash # configFile.pinned_hash

\* C19: on every exit of update_configuration, the return as well as an
\* error after the tracked branch was checked out at a new revision, the
\* secrets repository is on the branch and at the revision captured at the
\* start.
C19_RestoredOnEveryExit ==
    (pc \in {"done", "declined", "failed"} /\ starting_ref # "")
    => /\ current_branch(Repo) = starting_branch
       /\ current_hash(Repo) = starting_ref
       /\ worktree = starting_ref


\* C22: while update encrypts the mapped files the secrets repository is
\* checked out at the pinned hash just written to the .configure file, and
\* every encrypted file written so far holds its source's content at that
\* revision.
C22_EncryptsAtPinnedHash ==
    pc = "encrypt_loop"
    => /\ configFile.pinned_hash = configuration.pinned_hash
       /\ worktree = configFile.pinned_hash
       /\ \A i \in 1..(idx - 1) :
             LET file == configuration.files_to_copy[i]
                 written == files[get_encrypted_destination(file, TRUE)]
             IN  Plain(written.src, written.ver)
                    = SecretContent(file.source, configFile.pinned_hash)


----------------------------------------------------------------------------
(* Further properties of decrypt_files_for_configuration (SpecApply) *)

\* C23: at every point of decrypt_files_for_configuration, and after it has
\* ended with success or with an error, the content each destination had
\* before the run is still in the project: at the destination (which is
\* also where it is when the decrypted content is identical to it) or in a
\* backup file. This holds for every list of mappings, also when mappings
\* share a destination.
C23_OldContentKept ==
    \A i \in 1..Len(configuration.files_to_copy) :
        LET file == configuration.files_to_copy[i]
            before == args.tree[get_decrypted_destination(file)]
        IN  before.kind # "absent"
            => \/ files[get_decrypted_destination(file)] = before
               \/ \E t \in 0..MaxClock :
                     files[get_backup_destination_for_date(file, t)] = before


----------------------------------------------------------------------------
(* Further properties of update_configuration (Spec) *)

\* C24: when write_encrypted_files_for_configuration fails on a mapping, the
\* failing step changes no file, the encrypted files written for the
\* mappings before it stay in place with their new content, and the error
\* is reported.
C24_EarlierEncryptedFilesStay ==
    /\ [][(pc = "encrypt_loop" /\ err' = "Unable to copy encrypted files")
            => (pc' = "failed" /\ files' = files)]_vars
    /\ []((pc = "failed" /\ err = "Unable to copy encrypted files")
            => \A i \in 1..(idx - 1) :
                  LET file == configuration.files_to_copy[i]
                      written == files[get_encrypted_destination(file, TRUE)]
                  IN  /\ written.kind = "sealed"
                      /\ written.key = encryption_key
                      /\ Plain(written.src, written.ver)
                            = SecretContent(file.source, worktree))

C24_Witness ==
    /\ pc = "failed" /\ err = "Unable to copy encrypted files"
    /\ idx = 2
    /\ files[get_encrypted_destination(configuration.files_to_copy[1], TRUE)]
          = encrypt_bytes(Plain("s1", 1), "keyA", 1)


\* C26: after a completed update the tip of every local branch of the
\* secrets repository is the one it had before the run, also the tip of the
\* tracked branch when the run started on another branch or on a detached
\* HEAD and advanced the pin.
C26_BranchTipsRestored ==
    pc = "done" => \A b \in Branches : tip[b] = args.tip[b]


\* C27: after update has encrypted the mapped files and applied them, every
\* mapping's destination holds the plaintext of that mapping's own source;
\* two mappings with different destinations have different encrypted
\* files, also when the destinations have the same file name in different
\* directories.
C27_DestinationHoldsOwnSource ==
    pc = "done"
    => /\ \A i \in 1..Len(configuration.files_to_copy) :
             LET file == configuration.files_to_copy[i]
                 content == files[get_decrypted_destination(file)]
             IN  content.kind = "plain" /\ content.src = file.source
       /\ \A i, j \in 1..Len(configuration.files_to_copy) :
             LET fi == configuration.files_to_copy[i]
                 fj == configuration.files_to_copy[j]
             IN  get_decrypted_destination(fi) # get_decrypted_destination(fj)
                 => get_encrypted_destination(fi, TRUE)
                       # get_encrypted_destination(fj, TRUE)


----------------------------------------------------------------------------
(* Further properties of the .configure file (SpecEntry) *)

FieldOf(command) ==
    IF command = "update_project_name" THEN "project_name"
    ELSE IF command = "update_branch_name" THEN "branch"
    ELSE "pinned_hash"

\* C28: after update_project_name, update_branch_name or update_pinned_hash
\* was called with a configuration file path, the configuration read from
\* that path has the new value in the named field and the values it had
\* before in every other field, and no other configuration file was
\* written; this holds for a given path other than the default one too.
C28_FieldSavedAtThePathRead ==
    pc = "saved"
    => /\ files[ReadPath].kind = "file"
       /\ from_str(files[ReadPath].doc).kind = "ok"
       /\ from_str(files[ReadPath].doc).val
             = [ret.val EXCEPT ![FieldOf(args.command)] = args.value]
       /\ \A q \in DOMAIN files : q # ReadPath => files[q] = args.tree[q]


----------------------------------------------------------------------------
(* Properties of setup_configuration (SpecSetup) *)

\* C29: setup_configuration leaves the secrets repository on the branch
\* that was checked out before setup: a switch made to read the tip of the
\* selected branch is undone before setup returns.
C29_SetupRestoresBranch ==
    pc = "setup_done" => current_branch(Repo) = args.headRef

\* C30: generate_encryption_key_if_needed never changes an entry keys.json
\* already has: with an entry for the project the registry is left as it
\* is, without one exactly the project's entry is added and the entries of
\* the other projects keep their values; a second call leaves the registry
\* as the first call left it.
C30_ExistingEntriesKept ==
    /\ [][(pc = "setup_key" /\ pc' = "setup_done")
            => LET project == configuration.project_name
                   before == find_keys_file(keysJson)
               IN  /\ before.keys[project] # NoEntry
                      => keysJson' = keysJson
                   /\ before.keys[project] = NoEntry
                      => /\ keysJson'.keys[project] # NoEntry
                         /\ \A other \in Projects \ {project} :
                               keysJson'.keys[other] = before.keys[other]]_vars
    /\ [](pc = "setup_done"
            => \A generated \in {"QQ==A", "QQ==B"} :
                  generate_encryption_key_if_needed(configuration, generated)
                     = [kind |-> "ok", file |-> keysJson, why |-> ""])

====
